---- MODULE Spec2Model ----
(***************************************************************************)
(* Spark Parking Recommender API (src/SparkParkingAPI/main.py): the field  *)
(* normalizers, the availability evaluator, the Excel catalog load and the *)
(* /recommend handler.                                                     *)
(*                                                                         *)
(* Representation.  A Python value is a record [t, s, n]: t is its type    *)
(* tag, s the characters of a str (a sequence of one-character strings),   *)
(* n the magnitude of a number.  Floats are fixed point, in hundredths     *)
(* (Num(2050) is 20.5); NaN and the infinities are values of their own.    *)
(* An Optional[int] is a sequence of length at most one.                   *)
(***************************************************************************)
EXTENDS Integers, Sequences, FiniteSets, TLC

VARIABLES
    xls,            \* the workbook the decoder read at startup
    PARKINGS,       \* the Catalog, module-level
    model,          \* the loaded scoring artifact, "None" when loading failed
    response,       \* the last response of /recommend
    log,            \* what the last request did
    call,           \* a direct call of a helper: its arguments and result
    pc, req, idx, feature_rows, parking_info, results, resp   \* concurrent requests' frames

vars == <<xls, PARKINGS, model, response, log, call, pc, req, idx, feature_rows,
          parking_info, results, resp>>

-----------------------------------------------------------------------------
(* Python values *)

Str(chars) == [t |-> "str", s |-> chars, n |-> 0]
Num(v) == [t |-> "num", s |-> <<>>, n |-> v]
None == [t |-> "none", s |-> <<>>, n |-> 0]
NaN == [t |-> "nan", s |-> <<>>, n |-> 0]
PosInf == [t |-> "inf", s |-> <<>>, n |-> 0]
NegInf == [t |-> "ninf", s |-> <<>>, n |-> 0]
TimeObj(h) == [t |-> "time", s |-> <<>>, n |-> h]

isinstance_str(val) == val.t = "str"
isinstance_number(val) == val.t \in {"num", "nan", "inf", "ninf"}
IsFinite(val) == val.t = "num"

\* bool(x) of a number: only zero is falsy; NaN and the infinities are truthy
bool(val) == IF val.t = "num" THEN val.n # 0 ELSE TRUE

-----------------------------------------------------------------------------
(* str methods, on sequences of characters *)

\* str.upper() of one character
UpperOf ==
    ("a" :> "A") @@ ("b" :> "B") @@ ("c" :> "C") @@ ("d" :> "D") @@ ("e" :> "E") @@
    ("f" :> "F") @@ ("g" :> "G") @@ ("h" :> "H") @@ ("i" :> "I") @@ ("j" :> "J") @@
    ("k" :> "K") @@ ("l" :> "L") @@ ("m" :> "M") @@ ("n" :> "N") @@ ("o" :> "O") @@
    ("p" :> "P") @@ ("q" :> "Q") @@ ("r" :> "R") @@ ("s" :> "S") @@ ("t" :> "T") @@
    ("u" :> "U") @@ ("v" :> "V") @@ ("w" :> "W") @@ ("x" :> "X") @@ ("y" :> "Y") @@
    ("z" :> "Z")
DigitOf ==
    ("0" :> 0) @@ ("1" :> 1) @@ ("2" :> 2) @@ ("3" :> 3) @@ ("4" :> 4) @@
    ("5" :> 5) @@ ("6" :> 6) @@ ("7" :> 7) @@ ("8" :> 8) @@ ("9" :> 9)
Whitespace == {" ", "\t", "\n"}

IsDigit(c) == c \in DOMAIN DigitOf
DigitVal(c) == DigitOf[c]

ToUpper(c) == IF c \in DOMAIN UpperOf THEN UpperOf[c] ELSE c

upper(s) == [i \in DOMAIN s |-> ToUpper(s[i])]

strip(s) ==
    LET keep == {i \in DOMAIN s : s[i] \notin Whitespace}
    IN  IF keep = {} THEN <<>>
        ELSE LET lo == CHOOSE i \in keep : \A j \in keep : i <= j
                 hi == CHOOSE i \in keep : \A j \in keep : j <= i
             IN  SubSeq(s, lo, hi)

contains(s, sub) ==
    \E i \in 0..(Len(s) - Len(sub)) : SubSeq(s, i + 1, i + Len(sub)) = sub

startswith(s, prefix) ==
    Len(s) >= Len(prefix) /\ SubSeq(s, 1, Len(prefix)) = prefix

replace_commas(s) == SelectSeq(s, LAMBDA c : c # ",")

RECURSIVE int_of(_)
int_of(ds) ==
    IF ds = <<>> THEN 0
    ELSE 10 * int_of(SubSeq(ds, 1, Len(ds) - 1)) + DigitVal(ds[Len(ds)])

\* the last index of the run of digits that starts at index i
RunEnd(s, i) ==
    CHOOSE j \in i..Len(s) :
        /\ \A k \in i..j : IsDigit(s[k])
        /\ (j = Len(s) \/ ~IsDigit(s[j + 1]))

-----------------------------------------------------------------------------
(* Field normalizers *)

yn_to_int(val) ==
    LET s == strip(upper(val.s))
    IN  IF isinstance_str(val) /\ startswith(s, <<"Y">>) THEN 1
        ELSE IF isinstance_str(val) /\ startswith(s, <<"N">>) THEN 0
        ELSE IF isinstance_number(val) THEN (IF bool(val) THEN 1 ELSE 0)
        ELSE 0

discount_to_int(val) ==
    LET s == strip(upper(val.s))
    IN  IF /\ isinstance_str(val)
           /\ \/ contains(s, <<"E", "X", "E", "M", "P", "T">>)
              \/ contains(s, <<"D", "I", "S", "C", "O", "U", "N", "T">>)
              \/ contains(s, <<"Y", "E", "S">>)
        THEN 1
        ELSE 0

\* re.search(r"(\d+(\.\d+)?)", s): the leftmost run of digits, then, greedily,
\* a point followed by a run of digits; <<>> when s holds no digit.
\* The value is float(group(1)), in hundredths.
re_search_number(s) ==
    LET starts == {i \in DOMAIN s : IsDigit(s[i])}
    IN  IF starts = {} THEN <<>>
        ELSE LET i == CHOOSE a \in starts : \A b \in starts : a <= b
                 j == RunEnd(s, i)
                 hasFrac == j + 2 <= Len(s) /\ s[j + 1] = "." /\ IsDigit(s[j + 2])
                 k == IF hasFrac THEN RunEnd(s, j + 2) ELSE j
                 frac == IF hasFrac THEN SubSeq(s, j + 2, k) ELSE <<>>
                 d1 == IF Len(frac) >= 1 THEN DigitVal(frac[1]) ELSE 0
                 d2 == IF Len(frac) >= 2 THEN DigitVal(frac[2]) ELSE 0
             IN  <<100 * int_of(SubSeq(s, i, j)) + 10 * d1 + d2>>

rate_to_float(val) ==
    IF isinstance_number(val)
    THEN (IF val.t = "nan" THEN Num(0) ELSE val)
    ELSE IF isinstance_str(val) /\ re_search_number(replace_commas(val.s)) # <<>>
    THEN Num(re_search_number(replace_commas(val.s))[1])
    ELSE Num(0)

-----------------------------------------------------------------------------
(* Availability evaluator *)

\* pd.to_datetime(s, errors="coerce") followed by .hour, for the time-of-day
\* forms "H:MM", "HH:MM", each optionally followed by AM or PM in any case;
\* <<>> is NaT.  Any other text of the vocabulary is not a date or time.
to_datetime_hour(s) ==
    LET colon == {i \in {2, 3} : i + 2 <= Len(s) /\ s[i] = ":"}
    IN  IF colon = {} THEN <<>>
        ELSE LET c == CHOOSE i \in colon : \A j \in colon : i <= j
                 hh == SubSeq(s, 1, c - 1)
                 mm == SubSeq(s, c + 1, c + 2)
                 ampm == upper(strip(SubSeq(s, c + 3, Len(s))))
                 wellFormed == /\ \A i \in DOMAIN hh : IsDigit(hh[i])
                               /\ \A i \in DOMAIN mm : IsDigit(mm[i])
                               /\ int_of(mm) <= 59
                 h == int_of(hh)
             IN  IF ~wellFormed THEN <<>>
                 ELSE IF ampm = <<>> THEN (IF h <= 23 THEN <<h>> ELSE <<>>)
                 ELSE IF ampm = <<"A", "M">> /\ h <= 12 THEN <<IF h = 12 THEN 0 ELSE h>>
                 ELSE IF ampm = <<"P", "M">> /\ h <= 12 THEN <<IF h = 12 THEN 12 ELSE h + 12>>
                 ELSE <<>>

parse_hour_from_str(val) ==
    LET s == strip(val.s)
    IN  IF ~isinstance_str(val) THEN <<>>
        ELSE IF s = <<>> \/ upper(s) = <<"N", "/", "A">> THEN <<>>
        ELSE IF contains(s, <<"2", "4", "/", "7">>) THEN <<0>>
        ELSE to_datetime_hour(s)

\* the test of lines 119 and 121, were it to ask for the bare text "24/7"
is_24_7_exact(val) == isinstance_str(val) /\ val.s = <<"2", "4", "/", "7">>

\* the test of lines 119 and 121
is_24_7(val) == isinstance_str(val) /\ contains(upper(val.s), <<"2", "4", "/", "7">>)

\* the window test, were the overnight branch missing
in_window_same_day(open_h, close_h, hour) == open_h <= hour /\ hour < close_h

\* the window test, for two distinct parsed hours
in_window(open_h, close_h, hour) ==
    IF open_h < close_h
    THEN open_h <= hour /\ hour < close_h
    ELSE hour >= open_h \/ hour < close_h

compute_open_now(opening, closing, hour) ==
    LET open_h == parse_hour_from_str(opening)
        close_h == parse_hour_from_str(closing)
    IN  IF is_24_7(opening) THEN 1
        ELSE IF is_24_7(closing) THEN 1
        ELSE IF open_h = <<>> \/ close_h = <<>> THEN 1
        ELSE IF open_h[1] = close_h[1] THEN 1
        ELSE IF in_window(open_h[1], close_h[1], hour) THEN 1
        ELSE 0

-----------------------------------------------------------------------------
(* Excel load: PARKINGS = load_parking_excel("PARKING.xlsx") *)

\* pandas' missing-value test, as dropna applies it to a cell
isna(val) == val.t \in {"nan", "none"}

rename_map ==
    ("PARKING NAME" :> "name") @@ ("DETAILS" :> "details") @@ ("ADDRESS" :> "address") @@
    ("OPENING" :> "opening") @@ ("CLOSING" :> "closing") @@ ("LINK" :> "link") @@
    ("LATITUDE" :> "lat") @@ ("LONGITUDE" :> "lng") @@ ("GUARDS" :> "guards_raw") @@
    ("CCTVS" :> "cctvs_raw") @@ ("INITIAL RATE" :> "initial_rate_raw") @@
    ("PWD/SC DISCOUNT" :> "discount_raw") @@ ("STREET PARKING" :> "street_raw")

rename(c) == IF c \in DOMAIN rename_map THEN rename_map[c] ELSE c

\* one row of a sheet as a record of the Catalog: its columns renamed, the
\* sheet's name attached as "city"
to_record(row, sheet) ==
    [k \in {rename(c) : c \in DOMAIN row} \cup {"city"} |->
        IF k = "city" THEN Str(sheet)
        ELSE row[CHOOSE c \in DOMAIN row : rename(c) = k]]

\* the rows of one sheet that reach the Catalog.  A sheet is
\* [name, columns, rows], its column names already stripped and upper-cased.
load_sheet(sheet) ==
    IF ~({"lat", "lng"} \subseteq {rename(c) : c \in sheet.columns}) THEN <<>>
    ELSE LET kept == SelectSeq(sheet.rows,
                         LAMBDA row : ~isna(row["LATITUDE"]) /\ ~isna(row["LONGITUDE"]))
         IN  [i \in DOMAIN kept |-> to_record(kept[i], sheet.name)]

RECURSIVE load_sheets(_)
load_sheets(sheets) ==
    IF sheets = <<>> THEN <<>>
    ELSE load_sheet(Head(sheets)) \o load_sheets(Tail(sheets))

\* book is [readable, sheets]: a workbook that cannot be opened loads nothing
load_parking_excel(book) ==
    IF ~book.readable THEN <<>> ELSE load_sheets(book.sheets)

-----------------------------------------------------------------------------
(* The /recommend handler's parts *)

\* dict.get(key, default)
get(p, key, default) == IF key \in DOMAIN p THEN p[key] ELSE default

\* a decimal literal [sign] digits [. digits], in hundredths; <<>> if s is none
parse_decimal(s) ==
    LET neg == s # <<>> /\ s[1] = "-"
        body == IF s # <<>> /\ s[1] \in {"-", "+"} THEN Tail(s) ELSE s
        m == re_search_number(body)
        whole == /\ body # <<>>
                 /\ IsDigit(body[1])
                 /\ \A i \in DOMAIN body : IsDigit(body[i]) \/ body[i] = "."
                 /\ Cardinality({i \in DOMAIN body : body[i] = "."}) <= 1
    IN  IF whole THEN <<IF neg THEN 0 - m[1] ELSE m[1]>> ELSE <<>>

\* float(x): <<>> when it raises (ValueError, TypeError), else <<the float>>.
\* float() of a str accepts the spellings of nan and inf in any case.
float(val) ==
    LET s == upper(strip(val.s))
    IN  IF isinstance_number(val) THEN <<val>>
        ELSE IF ~isinstance_str(val) THEN <<>>
        ELSE IF s \in {<<"N", "A", "N">>, <<"+", "N", "A", "N">>, <<"-", "N", "A", "N">>} THEN <<NaN>>
        ELSE IF s \in {<<"I", "N", "F">>, <<"+", "I", "N", "F">>} THEN <<PosInf>>
        ELSE IF s = <<"-", "I", "N", "F">> THEN <<NegInf>>
        ELSE IF parse_decimal(s) # <<>> THEN <<Num(parse_decimal(s)[1])>>
        ELSE <<>>

RECURSIVE newton(_, _)
newton(n, x) ==
    LET y == (x + n \div x) \div 2
    IN  IF y >= x THEN x ELSE newton(n, y)

isqrt(n) == IF n = 0 THEN 0 ELSE newton(n, n)

\* haversine_km over floats: <<>> when math.sin / math.cos raise ValueError (an
\* infinite argument), NaN when an argument is NaN, else the distance, in
\* hundredths of a km for coordinates in hundredths of a degree.  The finite
\* case is the small-angle form R * sqrt(dlat^2 + dlon^2), 111.19 km a degree.
haversine_km(lat1, lon1, lat2, lon2) ==
    LET args == {lat1, lon1, lat2, lon2}
        dlat == lat2.n - lat1.n
        dlon == lon2.n - lon1.n
    IN  IF \E a \in args : a.t \in {"inf", "ninf"} THEN <<>>
        ELSE IF \E a \in args : a.t = "nan" THEN <<NaN>>
        ELSE <<Num((isqrt(10000 * (dlat * dlat + dlon * dlon)) * 11119) \div 10000)>>

\* One iteration of the loop over PARKINGS (p is PARKINGS[idx], idx from 0):
\* "skip" when float() raises on a coordinate, "raise" when haversine_km raises
\* (nothing catches it), else the feature row and the display info.
build_entry(p, i, r) ==
    LET lat == float(get(p, "lat", None))
        lng == float(get(p, "lng", None))
        dist_km == haversine_km(r.user_lat, r.user_lng, lat[1], lng[1])
        open_now == compute_open_now(get(p, "opening", None), get(p, "closing", None), r.time_of_day)
        cctvs == yn_to_int(get(p, "cctvs_raw", get(p, "CCTVS", Str(<<>>))))
        guards == yn_to_int(get(p, "guards_raw", get(p, "GUARDS", Str(<<>>))))
        initial_rate == rate_to_float(get(p, "initial_rate_raw", get(p, "INITIAL RATE", Str(<<>>))))
        pwd_discount == discount_to_int(get(p, "discount_raw", get(p, "PWD/SC DISCOUNT", Str(<<>>))))
        street_parking == yn_to_int(get(p, "street_raw", get(p, "STREET PARKING", Str(<<>>))))
    IN  IF "lat" \notin DOMAIN p \/ "lng" \notin DOMAIN p \/ lat = <<>> \/ lng = <<>>
        THEN [kind |-> "skip"]
        ELSE IF dist_km = <<>> THEN [kind |-> "raise"]
        ELSE [kind |-> "row",
              row |-> <<dist_km[1], open_now, cctvs, guards, initial_rate, pwd_discount, street_parking>>,
              info |-> [index |-> i,
                        name |-> get(p, "name", None),
                        details |-> get(p, "details", None),
                        address |-> get(p, "address", None),
                        link |-> get(p, "link", None),
                        city |-> get(p, "city", None),
                        lat |-> lat[1],
                        lng |-> lng[1],
                        distance_km |-> dist_km[1],
                        open_now |-> (open_now # 0),
                        opening |-> get(p, "opening", None),
                        closing |-> get(p, "closing", None),
                        guards |-> guards,
                        cctvs |-> cctvs,
                        initial_rate |-> initial_rate,
                        pwd_discount |-> pwd_discount,
                        street_parking |-> street_parking]]

\* the checks of lines 291-294, were the Catalog looked at first
start_checks_catalog_first(P, m) ==
    IF P = <<>>
    THEN <<[steps |-> <<"check_catalog">>, detail |-> "No parking data loaded from Excel."]>>
    ELSE IF m = "None"
    THEN <<[steps |-> <<"check_catalog", "check_model">>, detail |-> "Model not loaded."]>>
    ELSE <<>>

\* the checks made before the loop: <<>> when both pass, else the checks made
\* and the detail of the HTTPException raised
start_checks(P, m) ==
    IF m = "None" THEN <<[steps |-> <<"check_model">>, detail |-> "Model not loaded."]>>
    ELSE IF P = <<>>
    THEN <<[steps |-> <<"check_model", "check_catalog">>,
            detail |-> "No parking data loaded from Excel."]>>
    ELSE <<>>

\* what the loop leaves behind, given each record's iteration: it ends at the
\* first record on which haversine_km raises, if any
collect(entries) ==
    LET raises == {i \in DOMAIN entries : entries[i].kind = "raise"}
        last == IF raises = {} THEN Len(entries)
                ELSE CHOOSE i \in raises : \A j \in raises : i <= j
        kept == SelectSeq(SubSeq(entries, 1, last), LAMBDA e : e.kind = "row")
    IN  [steps |-> [i \in 1..last |-> entries[i].kind],
         feature_rows |-> [i \in DOMAIN kept |-> kept[i].row],
         parking_info |-> [i \in DOMAIN kept |-> kept[i].info],
         raised |-> raises # {}]

\* the loop over enumerate(PARKINGS)
scan(P, r) == collect([i \in DOMAIN P |-> build_entry(P[i], i - 1, r)])

\* The scoring function, model.predict(X): <<>> when it raises, else one score
\* per row of X, in hundredths.  The artifacts modelled: "nearest" scores
\* -distance_km, "amenities" counts the bits and subtracts the rate, both
\* reject a batch holding NaN or an infinity as estimators validating their
\* input do; "flat" scores every row 0 and reads nothing; "broken" raises.
AllFinite(X) == \A i \in DOMAIN X : IsFinite(X[i][1]) /\ IsFinite(X[i][5])

predict(m, X) ==
    IF m = "broken" THEN <<>>
    ELSE IF m = "flat" THEN <<[i \in DOMAIN X |-> 0]>>
    ELSE IF ~AllFinite(X) THEN <<>>
    ELSE IF m = "nearest" THEN <<[i \in DOMAIN X |-> 0 - X[i][1].n]>>
    ELSE <<[i \in DOMAIN X |->
              100 * (X[i][2] + X[i][3] + X[i][4] + X[i][6] + X[i][7]) - X[i][5].n]>>

\* attaching scores, were each looked up by the record's Catalog index
attach_scores_by_index(infos, scores) ==
    [i \in 1..(IF Len(infos) <= Len(scores) THEN Len(infos) ELSE Len(scores)) |->
        [k \in DOMAIN infos[i] \cup {"score"} |->
            IF k = "score"
            THEN scores[IF infos[i].index + 1 <= Len(scores) THEN infos[i].index + 1 ELSE Len(scores)]
            ELSE infos[i][k]]]

\* zip(parking_info, scores): dict(info) with "score" added
attach_scores(infos, scores) ==
    [i \in 1..(IF Len(infos) <= Len(scores) THEN Len(infos) ELSE Len(scores)) |->
        [k \in DOMAIN infos[i] \cup {"score"} |->
            IF k = "score" THEN scores[i] ELSE infos[i][k]]]

\* the insertion of a sort that is descending but turns equal scores around
insert_desc_unstable(sorted, x) ==
    LET ahead == {i \in DOMAIN sorted : sorted[i].score > x.score}
        n == Cardinality(ahead)
    IN  SubSeq(sorted, 1, n) \o <<x>> \o SubSeq(sorted, n + 1, Len(sorted))

\* list.sort(key=score, reverse=True): descending, and stable, so x goes behind
\* every element whose score is at least its own
insert_desc(sorted, x) ==
    LET ahead == {i \in DOMAIN sorted : sorted[i].score >= x.score}
        n == Cardinality(ahead)
    IN  SubSeq(sorted, 1, n) \o <<x>> \o SubSeq(sorted, n + 1, Len(sorted))

RECURSIVE sort_desc(_)
sort_desc(rs) ==
    IF rs = <<>> THEN <<>>
    ELSE insert_desc(sort_desc(SubSeq(rs, 1, Len(rs) - 1)), rs[Len(rs)])

\* results[:top_k]
slice_to(rs, top_k) ==
    LET n == Len(rs)
        stop == IF top_k >= 0 THEN (IF top_k < n THEN top_k ELSE n)
                ELSE (IF n + top_k > 0 THEN n + top_k ELSE 0)
    IN  SubSeq(rs, 1, stop)

error_response(detail) ==
    [status |-> 500, detail |-> detail, user_location |-> <<>>, recommendations |-> <<>>]

ok_response(r, rs) ==
    [status |-> 200, detail |-> "",
     user_location |-> <<r.user_lat, r.user_lng, r.time_of_day>>,
     recommendations |-> rs]

\* the outcome of the batch call and the ranking, given predict's result
ranked(r, rows, infos, scores) ==
    IF scores = <<>>
    THEN [response |-> error_response("Model prediction failed"),
          steps |-> <<"predict">>, X |-> <<rows>>, scores |-> <<>>]
    ELSE [response |-> ok_response(r, slice_to(sort_desc(attach_scores(infos, scores[1])), r.top_k)),
          steps |-> <<"predict", "sort">>, X |-> <<rows>>, scores |-> scores[1]]

\* what follows the loop: the empty check, the batch call, the ranking
finish(r, m, rows, infos) ==
    IF rows = <<>>
    THEN [response |-> error_response("No valid parking rows to score."),
          steps |-> <<>>, X |-> <<>>, scores |-> <<>>]
    ELSE ranked(r, rows, infos, predict(m, rows))

\* the request's outcome, given the checks' (pre), the loop's (lp) and, when
\* the loop ran to its end, what followed it (fin)
outcome(r, pre, lp, fin) ==
    IF pre # <<>>
    THEN [response |-> error_response(pre[1].detail), steps |-> pre[1].steps,
          X |-> <<>>, src |-> <<>>, scores |-> <<>>]
    ELSE IF lp.raised
    THEN [response |-> error_response("Internal Server Error"),
          steps |-> <<"check_model", "check_catalog">> \o lp.steps,
          X |-> <<>>, src |-> <<>>, scores |-> <<>>]
    ELSE [response |-> fin.response,
          steps |-> <<"check_model", "check_catalog">> \o lp.steps \o fin.steps,
          X |-> fin.X,
          src |-> [i \in DOMAIN lp.parking_info |-> lp.parking_info[i].index],
          scores |-> fin.scores]

after_loop(r, m, pre, lp) == outcome(r, pre, lp, finish(r, m, lp.feature_rows, lp.parking_info))

\* recommend(req, top_k) run to its end against Catalog P and model m: the
\* response, and what it did (the steps taken, each batch X handed to
\* model.predict, the scores returned, the Catalog indices of X's rows)
recommend(P, m, r) == after_loop(r, m, start_checks(P, m), scan(P, r))

-----------------------------------------------------------------------------
(* Values the helpers are called with: cells of the workbook, dict.get defaults *)

T_6AM == Str(<<"6", ":", "0", "0", " ", "A", "M">>)
T_7AM == Str(<<"7", ":", "0", "0", " ", "A", "M">>)
T_7PM == Str(<<"7", ":", "0", "0", "P", "M">>)
T_8PM == Str(<<"8", ":", "0", "0", " ", "P", "M">>)
T_4AM == Str(<<"4", ":", "0", "0", " ", "A", "M">>)
T_10PM == Str(<<"1", "0", ":", "0", "0", " ", "P", "M">>)
T_1830 == Str(<<"1", "8", ":", "3", "0">>)
T_12AM == Str(<<"1", "2", ":", "0", "0", " ", "A", "M">>)
T_12PM == Str(<<"1", "2", ":", "0", "0", " ", "P", "M">>)
T_9pm == Str(<<" ", "9", ":", "0", "0", " ", "p", "m", " ">>)
T_2500 == Str(<<"2", "5", ":", "0", "0">>)
T_247 == Str(<<"2", "4", "/", "7">>)
T_Open247 == Str(<<"O", "p", "e", "n", " ", "2", "4", "/", "7">>)
T_NA == Str(<<"N", "/", "A">>)
T_na == Str(<<"n", "/", "a">>)
T_empty == Str(<<>>)
T_blank == Str(<<" ", " ", " ">>)
T_garbage == Str(<<"g", "a", "r", "b", "a", "g", "e">>)

\* texts that are a time of day, and the hour each one states
TimeTexts == {T_6AM, T_7AM, T_7PM, T_8PM, T_4AM, T_10PM, T_1830, T_12AM, T_12PM, T_9pm}
HourOf ==
    (T_6AM :> 6) @@ (T_7AM :> 7) @@ (T_7PM :> 19) @@ (T_8PM :> 20) @@ (T_4AM :> 4) @@
    (T_10PM :> 22) @@ (T_1830 :> 18) @@ (T_12AM :> 0) @@ (T_12PM :> 12) @@ (T_9pm :> 21)
AlwaysTexts == {T_247, T_Open247}
UnknownTexts == {T_NA, T_na, T_empty, T_blank, T_garbage, T_2500}
\* None (no such column), NaN (an empty cell), a datetime.time cell, a number
NonTexts == {None, NaN, TimeObj(7), Num(700)}
TimeCells == TimeTexts \cup AlwaysTexts \cup UnknownTexts \cup NonTexts

Y_Yes == Str(<<"Y", "e", "s">>)
Y_YES == Str(<<"Y", "E", "S">>)
Y_y == Str(<<" ", "y">>)
Y_no == Str(<<"n", "o">>)
Y_n == Str(<<" ", " ", "n", " ">>)
Y_maybe == Str(<<"m", "a", "y", "b", "e">>)
Y_Oo == Str(<<"O", "o">>)
YesTexts == {Y_Yes, Y_YES, Y_y}
NoTexts == {Y_no, Y_n, T_NA}
OtherTexts == {Y_maybe, Y_Oo, T_empty, T_blank, T_247}
YnCells == YesTexts \cup NoTexts \cup OtherTexts \cup
           {None, NaN, Num(0), Num(100), Num(0 - 100), PosInf, TimeObj(7)}

R_PHP20 == Str(<<"P", "H", "P", " ", "2", "0", ".", "0", "0">>)
R_1000 == Str(<<"1", ",", "0", "0", "0">>)
R_Free == Str(<<"F", "r", "e", "e">>)
R_50hr == Str(<<"5", "0", "/", "h", "r">>)
R_P3550 == Str(<<"P", "3", "5", ".", "5", "0", " ", "f", "i", "r", "s", "t", " ", "3", " ", "h", "r", "s">>)
R_minus15 == Str(<<"-", "1", "5">>)
R_point5 == Str(<<".", "5">>)
\* rate texts, and the number each one's first numeric substring states
RateTexts == {R_PHP20, R_1000, R_50hr, R_P3550, R_minus15, R_point5, T_247, T_2500}
NoDigitTexts == {R_Free, T_empty, T_blank, T_NA, Y_maybe}
RateNumbers == {Num(0), Num(1500), Num(2050), Num(0 - 500), PosInf, NegInf}
RateCells == RateTexts \cup NoDigitTexts \cup RateNumbers \cup {NaN, None, TimeObj(7)}

D_Exempt == Str(<<"P", "W", "D", " ", "E", "x", "e", "m", "p", "t">>)

Hours == 0..23

-----------------------------------------------------------------------------
(* Direct calls of the helpers *)

NoCall == [fn |-> "none", args |-> <<>>, ret |-> <<>>]

Idle ==
    /\ response = <<>>
    /\ log = <<>>
    /\ pc = <<>> /\ req = <<>> /\ idx = <<>> /\ feature_rows = <<>>
    /\ parking_info = <<>> /\ results = <<>> /\ resp = <<>>

\* the request and the record of a direct call of the loop body
ARequest == [user_lat |-> Num(1460), user_lng |-> Num(12100), time_of_day |-> 12, top_k |-> 5]
ARecord == ("name" :> Str(<<"A">>)) @@ ("lat" :> Num(1461)) @@ ("lng" :> Num(12100)) @@
           ("city" :> Str(<<"M">>))
AmenityKeys == {"guards_raw", "cctvs_raw", "street_raw"}
\* ARecord with one amenity cell and the rate cell set; Absent leaves the key out
Absent == [t |-> "absent", s |-> <<>>, n |-> 0]
WithCells(k, v, rate) ==
    (IF v.t = "absent" THEN <<>> ELSE (k :> v)) @@
    (IF rate.t = "absent" THEN <<>> ELSE ("initial_rate_raw" :> rate)) @@ ARecord

InitFn ==
    /\ xls = [readable |-> FALSE, sheets |-> <<>>]
    /\ PARKINGS = load_parking_excel(xls)
    /\ model = "None"
    /\ Idle
    /\ call \in
        {[fn |-> "compute_open_now", args |-> <<o, c, h>>, ret |-> <<>>] :
            o \in TimeCells, c \in TimeCells, h \in Hours}
        \cup {[fn |-> "yn_to_int", args |-> <<v>>, ret |-> <<>>] : v \in YnCells}
        \cup {[fn |-> "rate_to_float", args |-> <<v>>, ret |-> <<>>] : v \in RateCells}
        \cup {[fn |-> "build_entry", args |-> <<WithCells(k, v, rate), 0, ARequest>>, ret |-> <<>>] :
                k \in AmenityKeys, v \in YnCells \cup {Absent}, rate \in RateCells \cup {Absent}}

CallBuildEntry ==
    /\ call.fn = "build_entry" /\ call.ret = <<>>
    /\ call' = [call EXCEPT !.ret = <<build_entry(call.args[1], call.args[2], call.args[3])>>]
    /\ UNCHANGED <<xls, PARKINGS, model, response, log, pc, req, idx, feature_rows,
                   parking_info, results, resp>>

CallComputeOpenNow ==
    /\ call.fn = "compute_open_now" /\ call.ret = <<>>
    /\ call' = [call EXCEPT !.ret = <<compute_open_now(call.args[1], call.args[2], call.args[3])>>]
    /\ UNCHANGED <<xls, PARKINGS, model, response, log, pc, req, idx, feature_rows,
                   parking_info, results, resp>>

CallYnToInt ==
    /\ call.fn = "yn_to_int" /\ call.ret = <<>>
    /\ call' = [call EXCEPT !.ret = <<yn_to_int(call.args[1])>>]
    /\ UNCHANGED <<xls, PARKINGS, model, response, log, pc, req, idx, feature_rows,
                   parking_info, results, resp>>

CallRateToFloat ==
    /\ call.fn = "rate_to_float" /\ call.ret = <<>>
    /\ call' = [call EXCEPT !.ret = <<rate_to_float(call.args[1])>>]
    /\ UNCHANGED <<xls, PARKINGS, model, response, log, pc, req, idx, feature_rows,
                   parking_info, results, resp>>

NextFn == CallComputeOpenNow \/ CallYnToInt \/ CallRateToFloat \/ CallBuildEntry

SpecFn == InitFn /\ [][NextFn]_vars

-----------------------------------------------------------------------------
(* Claims about the helpers, under SpecFn *)

Returned(fn) == call.fn = fn /\ call.ret # <<>>

\* C1: for an opening and a closing text that state two distinct hours o and c
\* (neither holding "24/7") and an hour h in 0..23, compute_open_now returns
\* open iff (o < c and o <= h < c) or (o > c and (h >= o or h < c)); 20 -> 4 is
\* open at hour 1 and 7 -> 22 is closed at hour 23.
C1_WindowRule ==
    Returned("compute_open_now") =>
        LET opening == call.args[1]
            closing == call.args[2]
            h == call.args[3]
        IN  /\ (opening \in TimeTexts /\ closing \in TimeTexts /\ HourOf[opening] # HourOf[closing]) =>
                LET o == HourOf[opening]
                    c == HourOf[closing]
                IN  (call.ret[1] = 1) <=>
                        ((o < c /\ o <= h /\ h < c) \/ (o > c /\ (h >= o \/ h < c)))
            /\ (opening = T_8PM /\ closing = T_4AM /\ h = 1) => call.ret[1] = 1
            /\ (opening = T_7AM /\ closing = T_10PM /\ h = 23) => call.ret[1] = 0

C1_Witness ==
    /\ Returned("compute_open_now")
    /\ call.args = <<T_8PM, T_4AM, 1>>
    /\ call.ret = <<1>>

\* C2: compute_open_now returns closed only when both fields state an hour, the
\* two hours differ and neither field holds "24/7"; for every other input (a
\* field absent, not a string, empty, "N/A", unparsable, or holding "24/7"
\* whatever the other holds, or equal hours) it returns open at every hour.
C2_DefaultOpen ==
    Returned("compute_open_now") =>
        LET opening == call.args[1]
            closing == call.args[2]
            states_hours == opening \in TimeTexts /\ closing \in TimeTexts
        IN  /\ call.ret[1] \in {0, 1}
            /\ call.ret[1] = 0 => (states_hours /\ HourOf[opening] # HourOf[closing])
            /\ (opening \in NonTexts \cup UnknownTexts \cup AlwaysTexts) => call.ret[1] = 1
            /\ (closing \in NonTexts \cup UnknownTexts \cup AlwaysTexts) => call.ret[1] = 1
            /\ (states_hours /\ HourOf[opening] = HourOf[closing]) => call.ret[1] = 1

C2_Witness ==
    /\ Returned("compute_open_now")
    /\ call.args = <<T_Open247, T_10PM, 23>>
    /\ call.ret = <<1>>

AmenitySlot == ("guards_raw" :> 4) @@ ("cctvs_raw" :> 3) @@ ("street_raw" :> 7)
AmenityField(info) ==
    ("guards_raw" :> info.guards) @@ ("cctvs_raw" :> info.cctvs) @@ ("street_raw" :> info.street_parking)

\* C8: a record whose guards, CCTV or street-parking field is absent (no such
\* column, or an empty cell, which the decoder yields as NaN) or holds text
\* starting with neither Y nor N gets bit 0 in the feature vector and in the
\* recommendation; the bit is 1 only for text whose trimmed upper-cased form
\* starts with "Y" or for a truthy number.
C8_AbsentIsZero ==
    (Returned("build_entry") /\ call.ret[1].kind = "row") =>
        \A k \in AmenityKeys :
            LET p == call.args[1]
                absent == k \notin DOMAIN p \/ p[k] \in {NaN, None}
                bit == call.ret[1].row[AmenitySlot[k]]
            IN  /\ bit = AmenityField(call.ret[1].info)[k]
                /\ (absent \/ p[k] \in OtherTexts) => bit = 0
                /\ bit = 1 => (k \in DOMAIN p /\ (p[k] \in YesTexts \/ (isinstance_number(p[k]) /\ bool(p[k]))))

NonNegative(x) == x.t = "inf" \/ (x.t = "num" /\ x.n >= 0)

\* C9: rate_to_float returns a value >= 0 for every input, so the initial_rate
\* slot of every feature vector is a non-negative number.
C9_NeverNegative ==
    /\ Returned("rate_to_float") => NonNegative(call.ret[1])
    /\ (Returned("build_entry") /\ call.ret[1].kind = "row") => NonNegative(call.ret[1].row[5])

-----------------------------------------------------------------------------
(* The service: the workbook read at startup, then /recommend requests *)

MaxRows == 3
MaxTopK == 3

L_1465 == Str(<<"1", "4", ".", "6", "5">>)
L_145N == Str(<<"1", "4", ".", "5", "N">>)
L_NAN == Str(<<"N", "A", "N">>)
L_inf == Str(<<"i", "n", "f">>)

FullColumns == {"PARKING NAME", "LATITUDE", "LONGITUDE", "OPENING", "CLOSING", "GUARDS",
                "CCTVS", "INITIAL RATE", "PWD/SC DISCOUNT", "STREET PARKING"}

Row(name, lat, lng, opening, closing, guards, cctvs, rate, discount, street) ==
    ("PARKING NAME" :> Str(<<name>>)) @@ ("LATITUDE" :> lat) @@ ("LONGITUDE" :> lng) @@
    ("OPENING" :> opening) @@ ("CLOSING" :> closing) @@ ("GUARDS" :> guards) @@
    ("CCTVS" :> cctvs) @@ ("INITIAL RATE" :> rate) @@ ("PWD/SC DISCOUNT" :> discount) @@
    ("STREET PARKING" :> street)

\* rows of the sheet "Manila": A, B and C have coordinates (B and C equally far
\* from the user, B with every optional cell empty), E holds text that is no
\* number where its longitude belongs
ManilaRows == {
    Row("A", Num(1461), Num(12100), T_7AM, T_10PM, Y_Yes, Y_no, R_PHP20, D_Exempt, Y_Oo),
    Row("B", Num(1465), Num(12100), T_247, T_247, NaN, NaN, NaN, NaN, NaN),
    Row("C", Num(1465), Num(12100), T_8PM, T_4AM, Y_maybe, Y_YES, Num(5000), Y_no, Num(100)),
    Row("E", Num(1461), L_145N, TimeObj(7), T_10PM, Y_Yes, Y_Yes, R_PHP20, Y_no, Y_no)}

Sheet(name, columns, rows) == [name |-> name, columns |-> columns, rows |-> rows]

\* a sheet with no amenity or rate columns, whose first row has an empty
\* latitude cell
Makati ==
    Sheet(<<"M", "a", "k", "a", "t", "i">>,
          {"PARKING NAME", "LATITUDE", "LONGITUDE", "OPENING", "CLOSING"},
          <<("PARKING NAME" :> Str(<<"D">>)) @@ ("LATITUDE" :> NaN) @@
            ("LONGITUDE" :> Num(12100)) @@ ("OPENING" :> T_6AM) @@ ("CLOSING" :> T_1830),
            ("PARKING NAME" :> Str(<<"M">>)) @@ ("LATITUDE" :> Num(1470)) @@
            ("LONGITUDE" :> Num(12100)) @@ ("OPENING" :> T_6AM) @@ ("CLOSING" :> T_1830)>>)
\* a sheet with no LONGITUDE column
Annex ==
    Sheet(<<"A", "n", "n", "e", "x">>, {"PARKING NAME", "LATITUDE"},
          <<("PARKING NAME" :> Str(<<"X">>)) @@ ("LATITUDE" :> Num(1460))>>)
\* Sheets whose coordinate column holds text cells only, so that the decoder
\* leaves every cell of it a str: a latitude column with the texts "NAN",
\* "14.65" and "14.5N", and a longitude column with the texts "inf" and "14.5N"
Cavite ==
    Sheet(<<"C", "a", "v", "i", "t", "e">>, FullColumns,
          <<Row("F", L_NAN, Num(12100), T_7AM, T_10PM, Y_no, Y_Yes, R_Free, Y_no, Y_no),
            Row("K", L_1465, Num(12100), T_7AM, T_10PM, Y_no, Y_Yes, R_Free, Y_no, Y_no),
            Row("H", L_145N, Num(12100), T_7AM, T_10PM, Y_no, Y_Yes, R_Free, Y_no, Y_no)>>)
Laguna ==
    Sheet(<<"L", "a", "g", "u", "n", "a">>, FullColumns,
          <<Row("G", Num(1461), L_inf, T_7AM, T_10PM, Y_no, Y_no, R_50hr, Y_no, Y_no),
            Row("J", Num(1461), L_145N, T_7AM, T_10PM, Y_no, Y_no, R_50hr, Y_no, Y_no)>>)

SeqsUpTo(S, n) == UNION {[1..k -> S] : k \in 0..n}

Workbooks ==
    {[readable |-> FALSE, sheets |-> <<>>]} \cup
    {[readable |-> TRUE,
      sheets |-> <<Sheet(<<"M", "a", "n", "i", "l", "a">>, FullColumns, rows)>> \o more] :
        rows \in SeqsUpTo(ManilaRows, MaxRows),
        more \in {<<>>, <<Makati>>, <<Annex>>, <<Cavite>>, <<Laguna>>}}

\* joblib.load: an artifact, or None when loading raised
Models == {"None", "nearest", "amenities", "flat", "broken"}

\* the query parameter top_k is any int; time_of_day is an hour
TopKs == {0 - 1} \cup 0..MaxTopK
Requests ==
    [user_lat : {Num(1460)}, user_lng : {Num(12100)}, time_of_day : {1, 23}, top_k : TopKs]

NoFrames ==
    /\ pc = <<>> /\ req = <<>> /\ idx = <<>> /\ feature_rows = <<>>
    /\ parking_info = <<>> /\ results = <<>> /\ resp = <<>>

Init ==
    /\ xls \in Workbooks
    /\ PARKINGS = load_parking_excel(xls)
    /\ model \in Models
    /\ response = <<>>
    /\ log = <<>>
    /\ call = NoCall
    /\ NoFrames

Served(r, out) ==
    /\ response' = out.response
    /\ log' = [steps |-> out.steps, X |-> out.X, src |-> out.src, scores |-> out.scores, req |-> r]

\* POST /recommend, run to its end: the first request after startup (the
\* handler reads nothing a request before it wrote)
Recommend(r) ==
    /\ response = <<>>
    /\ Served(r, recommend(PARKINGS, model, r))
    /\ UNCHANGED <<xls, PARKINGS, model, call, pc, req, idx, feature_rows,
                   parking_info, results, resp>>

Next == \E r \in Requests : Recommend(r)

Spec == Init /\ [][Next]_vars

-----------------------------------------------------------------------------
(* Claims about /recommend, under Spec *)

Answered == response # <<>>
Ok == Answered /\ response.status = 200
Recs == response.recommendations
Min(a, b) == IF a <= b THEN a ELSE b

\* coordinate cells: those float() turns down, and those that state a finite number
NotANumber(v) == v \in {L_145N, None, TimeObj(7)}
FiniteCell(v) == v.t = "num" \/ v = L_1465
FiniteCoords(p) == FiniteCell(p["lat"]) /\ FiniteCell(p["lng"])
Scoreable == {i \in DOMAIN PARKINGS : ~NotANumber(PARKINGS[i]["lat"]) /\ ~NotANumber(PARKINGS[i]["lng"])}

\* C3: in a successful response the recommendations are in non-increasing score
\* order, and two results of equal score are in Catalog order.
C3_SortedStable ==
    Ok => \A i, j \in DOMAIN Recs :
            i < j => \/ Recs[i].score > Recs[j].score
                     \/ (Recs[i].score = Recs[j].score /\ Recs[i].index < Recs[j].index)

C3_Witness ==
    /\ Ok
    /\ \E i, j \in DOMAIN Recs : i < j /\ Recs[i].score = Recs[j].score
    /\ \E i, j \in DOMAIN Recs : i < j /\ Recs[i].score > Recs[j].score /\ Recs[i].index > Recs[j].index

\* C4: for every integer top_k the operation accepts, a successful response
\* holds at most top_k recommendations, and exactly min(top_k, number of
\* scoreable records) of them.
C4_AtMostTopK ==
    Ok => /\ Len(Recs) <= log.req.top_k
          /\ Len(Recs) = Min(log.req.top_k, Len(log.src))

\* C5: recommend is all-or-nothing: with no model, an empty Catalog, every
\* record excluded or a scoring call that raises, the request ends in status
\* 500 with no recommendations; the model check comes before the Catalog check,
\* and both before any feature vector is built or the scoring function called.
C5_AllOrNothing ==
    Answered =>
        /\ response.status \in {200, 500}
        /\ response.status = 500 => Recs = <<>>
        /\ model = "None" =>
            response.status = 500 /\ log.steps = <<"check_model">> /\ log.X = <<>>
        /\ (model # "None" /\ PARKINGS = <<>>) =>
            response.status = 500 /\ log.steps = <<"check_model", "check_catalog">> /\ log.X = <<>>
        /\ Scoreable = {} => (response.status = 500 /\ log.X = <<>>)
        /\ (model = "broken" \/ (log.X # <<>> /\ log.scores = <<>>)) => response.status = 500
        /\ log.steps[1] = "check_model"
        /\ \A i \in DOMAIN log.steps :
            /\ i >= 2 => log.steps[i] # "check_model"
            /\ log.steps[i] = "check_catalog" => i = 2
            /\ log.steps[i] \in {"row", "skip", "raise", "predict", "sort"} => i > 2

C5_Witness ==
    /\ Answered
    /\ model = "broken"
    /\ response.status = 500
    /\ log.X # <<>>
    /\ \E i \in DOMAIN log.steps : log.steps[i] = "skip"

\* C6: every record whose stored latitude or longitude is not a finite number
\* (missing, non-numeric text, NaN or infinite) is excluded from scoring: no
\* feature vector handed to the scoring function and no recommendation comes
\* from such a record.
C6_NonFiniteExcluded ==
    Answered =>
        /\ log.X # <<>> => \A j \in DOMAIN log.src : FiniteCoords(PARKINGS[log.src[j] + 1])
        /\ \A k \in DOMAIN Recs : FiniteCoords(PARKINGS[Recs[k].index + 1])

\* C7: the scoring function is called exactly once per successful request, on
\* the batch of all scoreable records' feature vectors, and each returned
\* recommendation carries the output for the vector built from its own record,
\* also when records were skipped; so with score = -distance_km, top_k = k
\* returns the k nearest scoreable facilities, nearest first.
C7_ScoresAligned ==
    Answered =>
        /\ Len(log.X) <= 1
        /\ Ok =>
            /\ Len(log.X) = 1
            /\ Len(log.X[1]) = Cardinality(Scoreable)
            /\ Len(log.scores) = Len(log.X[1])
            /\ \A j \in DOMAIN log.src :
                /\ log.src[j] + 1 \in Scoreable
                /\ log.X[1][j] = build_entry(PARKINGS[log.src[j] + 1], log.src[j], log.req).row
            /\ \A k \in DOMAIN Recs :
                \E j \in DOMAIN log.src :
                    /\ log.src[j] = Recs[k].index
                    /\ Recs[k].score = log.scores[j]
                    /\ Recs[k].distance_km = log.X[1][j][1]
        /\ (Ok /\ model = "nearest") =>
            /\ \A k \in DOMAIN Recs : Recs[k].score = 0 - Recs[k].distance_km.n
            /\ \A k, l \in DOMAIN Recs : k < l => Recs[k].distance_km.n <= Recs[l].distance_km.n
            /\ \A j \in DOMAIN log.src :
                (\A k \in DOMAIN Recs : Recs[k].index # log.src[j]) =>
                    \A k \in DOMAIN Recs : Recs[k].distance_km.n <= log.X[1][j][1].n
            /\ log.req.top_k >= 0 => Len(Recs) = Min(log.req.top_k, Cardinality(Scoreable))

C7_Witness ==
    /\ Ok
    /\ model = "nearest"
    /\ log.req.top_k = 2
    /\ Len(Recs) = 2
    /\ Len(log.src) >= 3
    /\ \E i, j \in DOMAIN log.steps : i < j /\ log.steps[i] = "skip" /\ log.steps[j] = "row"
    /\ Recs[1].index > Recs[2].index

-----------------------------------------------------------------------------
(* Concurrent /recommend requests, each in a frame of its own *)

MaxConcRows == 2
RequestIds == {1, 2}

ConcWorkbooks ==
    {[readable |-> TRUE,
      sheets |-> <<Sheet(<<"M", "a", "n", "i", "l", "a">>, FullColumns, rows)>> \o more] :
        rows \in SeqsUpTo(ManilaRows, MaxConcRows), more \in {<<>>, <<Laguna>>}}

ConcRequests ==
    [user_lat : {Num(1460)}, user_lng : {Num(12100), Num(12101)}, time_of_day : {23}, top_k : {1, MaxTopK}]

InitConc ==
    /\ xls \in ConcWorkbooks
    /\ PARKINGS = load_parking_excel(xls)
    /\ model \in Models
    /\ response = <<>>
    /\ log = <<>>
    /\ call = NoCall
    /\ pc = [r \in RequestIds |-> "idle"]
    /\ req = [r \in RequestIds |-> <<>>]
    /\ idx = [r \in RequestIds |-> 0]
    /\ feature_rows = [r \in RequestIds |-> <<>>]
    /\ parking_info = [r \in RequestIds |-> <<>>]
    /\ results = [r \in RequestIds |-> <<>>]
    /\ resp = [r \in RequestIds |-> <<>>]

\* list.append on a list of every frame at once, as if the list were one
\* module-level object
append_shared(lists, r, x) == [q \in DOMAIN lists |-> Append(lists[q], x)]

\* list.append on a list local to request r's frame
append_local(lists, r, x) == [lists EXCEPT ![r] = Append(@, x)]

Shared == <<xls, PARKINGS, model, response, log, call>>

\* the request arrives: lines 291-297
Checked(r, q, pre) ==
    /\ req' = [req EXCEPT ![r] = q]
    /\ IF pre # <<>>
       THEN /\ resp' = [resp EXCEPT ![r] = error_response(pre[1].detail)]
            /\ pc' = [pc EXCEPT ![r] = "done"]
       ELSE /\ pc' = [pc EXCEPT ![r] = "loop"]
            /\ resp' = resp
    /\ idx' = [idx EXCEPT ![r] = 0]
    /\ feature_rows' = [feature_rows EXCEPT ![r] = <<>>]
    /\ parking_info' = [parking_info EXCEPT ![r] = <<>>]
    /\ UNCHANGED results

Accept(r, q) ==
    /\ pc[r] = "idle"
    /\ Checked(r, q, start_checks(PARKINGS, model))
    /\ UNCHANGED Shared

\* one iteration of the loop: lines 299-350
Iterated(r, e) ==
    IF e.kind = "raise"
    THEN /\ resp' = [resp EXCEPT ![r] = error_response("Internal Server Error")]
         /\ pc' = [pc EXCEPT ![r] = "done"]
         /\ UNCHANGED <<idx, feature_rows, parking_info>>
    ELSE /\ idx' = [idx EXCEPT ![r] = @ + 1]
         /\ IF e.kind = "row"
            THEN /\ feature_rows' = append_local(feature_rows, r, e.row)
                 /\ parking_info' = append_local(parking_info, r, e.info)
            ELSE UNCHANGED <<feature_rows, parking_info>>
         /\ UNCHANGED <<pc, resp>>

Iterate(r) ==
    /\ pc[r] = "loop"
    /\ idx[r] < Len(PARKINGS)
    /\ Iterated(r, build_entry(PARKINGS[idx[r] + 1], idx[r], req[r]))
    /\ UNCHANGED <<req, results>>
    /\ UNCHANGED Shared

\* the loop is over: lines 352-367
Scored(r, scores) ==
    IF feature_rows[r] = <<>> \/ scores = <<>>
    THEN /\ resp' = [resp EXCEPT ![r] =
                        IF feature_rows[r] = <<>>
                        THEN error_response("No valid parking rows to score.")
                        ELSE error_response("Model prediction failed")]
         /\ pc' = [pc EXCEPT ![r] = "done"]
         /\ UNCHANGED results
    ELSE /\ results' = [results EXCEPT ![r] = attach_scores(parking_info[r], scores[1])]
         /\ pc' = [pc EXCEPT ![r] = "rank"]
         /\ UNCHANGED resp

Score(r) ==
    /\ pc[r] = "loop"
    /\ idx[r] = Len(PARKINGS)
    /\ Scored(r, predict(model, feature_rows[r]))
    /\ UNCHANGED <<req, idx, feature_rows, parking_info>>
    /\ UNCHANGED Shared

\* lines 369-380
Rank(r) ==
    /\ pc[r] = "rank"
    /\ resp' = [resp EXCEPT ![r] = ok_response(req[r], slice_to(sort_desc(results[r]), req[r].top_k))]
    /\ pc' = [pc EXCEPT ![r] = "done"]
    /\ UNCHANGED <<req, idx, feature_rows, parking_info, results>>
    /\ UNCHANGED Shared

NextConc ==
    \E r \in RequestIds :
        \/ \E q \in ConcRequests : Accept(r, q)
        \/ Iterate(r)
        \/ Score(r)
        \/ Rank(r)

SpecConc == InitConc /\ [][NextConc]_vars

\* C10: no request, successful or failed, changes the Catalog or the model:
\* under any interleaving the Catalog stays what startup left, and each
\* request's response is the one it would get run alone against that Catalog.
C10_Isolation ==
    /\ [][PARKINGS' = PARKINGS /\ model' = model]_vars
    /\ [](PARKINGS = load_parking_excel(xls))
    /\ [](\A r \in RequestIds :
            pc[r] = "done" => resp[r] = recommend(PARKINGS, model, req[r]).response)

C10_Witness ==
    /\ \A r \in RequestIds : pc[r] = "done" /\ resp[r].status = 200
    /\ req[1] # req[2]
    /\ resp[1] # resp[2]

====
